---------------------------- MODULE Spec2Model ----------------------------
(***************************************************************************)
(* The chat component of YewChat (src/YewChat/src/components/chat.rs):     *)
(* the wire codec (serde_json on WebSocketMessage and MessageData), the    *)
(* activation (Chat::create), the inbound reducer (Msg::HandleMsg), the    *)
(* outbound composer (Msg::SubmitMessage) and the view (Chat::view).       *)
(*                                                                         *)
(* A Rust String is a sequence of one-character strings, so that wire      *)
(* text is parsed and written character by character.                      *)
(***************************************************************************)
EXTENDS Integers, Sequences, FiniteSets, TLC

(***************************************************************************)
(* Bounds of the model.                                                    *)
(***************************************************************************)
\* inbound frames delivered and clicks on the send button, together, in one run
MaxEvents == 3
\* strings in the payload list of an envelope of the codec round trip
MaxList == 2
\* characters in a generated message body of the view alone
MaxBody == 4

(***************************************************************************)
(* Option<T>: None is the empty sequence, Some(x) the one-element one.     *)
(***************************************************************************)
None == <<>>
Some(x) == <<x>>

(***************************************************************************)
(* JSON text, as serde_json reads it.  A parsed value is a record          *)
(*   t : "null" | "bool" | "num" | "str" | "arr" | "obj"                   *)
(*   s : the characters of a string, a number or a literal                 *)
(*   a : the elements of an array, or the member values of an object       *)
(*   k : the member keys of an object, aligned with a                      *)
(* The grammar covered: null, true, false, strings with the escapes        *)
(* \" \\ \/ \n \t \r, unsigned integers, arrays and objects.               *)
(***************************************************************************)
WS == {" ", "\t", "\n", "\r"}
Control == {"\t", "\n", "\r"}
Digits == {"0", "1", "2", "3", "4", "5", "6", "7", "8", "9"}

JNull == [t |-> "null", s |-> <<>>, a |-> <<>>, k |-> <<>>]
JBool(w) == [t |-> "bool", s |-> w, a |-> <<>>, k |-> <<>>]
JNum(d) == [t |-> "num", s |-> d, a |-> <<>>, k |-> <<>>]
JStr(s) == [t |-> "str", s |-> s, a |-> <<>>, k |-> <<>>]
JArr(a) == [t |-> "arr", s |-> <<>>, a |-> a, k |-> <<>>]
JObj(k, a) == [t |-> "obj", s |-> <<>>, a |-> a, k |-> k]

Fail == [ok |-> FALSE, v |-> JNull, i |-> 0]
Parsed(v, i) == [ok |-> TRUE, v |-> v, i |-> i]

RECURSIVE SkipWs(_, _)
SkipWs(s, i) ==
    IF i <= Len(s) /\ s[i] \in WS THEN SkipWs(s, i + 1) ELSE i

\* the character an escape sequence \c stands for; <<>> when it is no escape
Unescape(c) ==
    CASE c = "\"" -> <<"\"">>
      [] c = "\\" -> <<"\\">>
      [] c = "/" -> <<"/">>
      [] c = "n" -> <<"\n">>
      [] c = "t" -> <<"\t">>
      [] c = "r" -> <<"\r">>
      [] OTHER -> <<>>

\* the rest of a string, read from the character after its opening quote
RECURSIVE ParseStr(_, _, _)
ParseStr(s, i, acc) ==
    IF i > Len(s) THEN Fail
    ELSE IF s[i] = "\"" THEN Parsed(JStr(acc), i + 1)
    ELSE IF s[i] = "\\"
         THEN IF i + 1 > Len(s) THEN Fail
              ELSE IF Unescape(s[i + 1]) = <<>> THEN Fail
              ELSE ParseStr(s, i + 2, acc \o Unescape(s[i + 1]))
    ELSE IF s[i] \in Control THEN Fail
    ELSE ParseStr(s, i + 1, Append(acc, s[i]))

ParseLit(s, i, word, v) ==
    IF i + Len(word) - 1 <= Len(s) /\ SubSeq(s, i, i + Len(word) - 1) = word
    THEN Parsed(v, i + Len(word))
    ELSE Fail

RECURSIVE ParseDigits(_, _, _)
ParseDigits(s, i, acc) ==
    IF i <= Len(s) /\ s[i] \in Digits
    THEN ParseDigits(s, i + 1, Append(acc, s[i]))
    ELSE Parsed(JNum(acc), i)

\* a number: 0, or a digit 1-9 followed by digits (a leading zero is an error)
ParseNum(s, i) ==
    IF s[i] = "0"
    THEN IF i + 1 <= Len(s) /\ s[i + 1] \in Digits THEN Fail
         ELSE Parsed(JNum(<<"0">>), i + 1)
    ELSE ParseDigits(s, i, <<>>)

RECURSIVE ParseValue(_, _), ParseElems(_, _, _), ParseMembers(_, _, _, _)
ParseValue(s, i0) ==
    LET i == SkipWs(s, i0) IN
    IF i > Len(s) THEN Fail
    ELSE CASE s[i] = "\"" -> ParseStr(s, i + 1, <<>>)
           [] s[i] = "n" -> ParseLit(s, i, <<"n","u","l","l">>, JNull)
           [] s[i] = "t" -> ParseLit(s, i, <<"t","r","u","e">>, JBool(<<"t","r","u","e">>))
           [] s[i] = "f" -> ParseLit(s, i, <<"f","a","l","s","e">>, JBool(<<"f","a","l","s","e">>))
           [] s[i] \in Digits -> ParseNum(s, i)
           [] s[i] = "[" ->
                LET j == SkipWs(s, i + 1) IN
                IF j <= Len(s) /\ s[j] = "]" THEN Parsed(JArr(<<>>), j + 1)
                ELSE ParseElems(s, i + 1, <<>>)
           [] s[i] = "{" ->
                LET j == SkipWs(s, i + 1) IN
                IF j <= Len(s) /\ s[j] = "}" THEN Parsed(JObj(<<>>, <<>>), j + 1)
                ELSE ParseMembers(s, i + 1, <<>>, <<>>)
           [] OTHER -> Fail

\* the elements of an array, after "[" or ","
ParseElems(s, i, acc) ==
    LET r == ParseValue(s, i)
        j == SkipWs(s, r.i)
    IN  IF ~r.ok THEN Fail
        ELSE IF j > Len(s) THEN Fail
        ELSE IF s[j] = "," THEN ParseElems(s, j + 1, Append(acc, r.v))
        ELSE IF s[j] = "]" THEN Parsed(JArr(Append(acc, r.v)), j + 1)
        ELSE Fail

\* the members of an object, after "{" or ","
ParseMembers(s, i, keys, vals) ==
    LET j == SkipWs(s, i)
        key == ParseStr(s, j + 1, <<>>)
        c == SkipWs(s, key.i)
        val == ParseValue(s, c + 1)
        d == SkipWs(s, val.i)
    IN  IF j > Len(s) THEN Fail
        ELSE IF s[j] # "\"" THEN Fail
        ELSE IF ~key.ok THEN Fail
        ELSE IF c > Len(s) THEN Fail
        ELSE IF s[c] # ":" THEN Fail
        ELSE IF ~val.ok THEN Fail
        ELSE IF d > Len(s) THEN Fail
        ELSE IF s[d] = ","
             THEN ParseMembers(s, d + 1, Append(keys, key.v.s), Append(vals, val.v))
        ELSE IF s[d] = "}"
             THEN Parsed(JObj(Append(keys, key.v.s), Append(vals, val.v)), d + 1)
        ELSE Fail

\* serde_json::from_str: one value, then nothing but whitespace
ParseJson(s) ==
    LET r == ParseValue(s, 1) IN
    IF r.ok /\ SkipWs(s, r.i) > Len(s) THEN r ELSE Fail

(***************************************************************************)
(* MsgTypes, with #[serde(rename_all = "lowercase")].                      *)
(***************************************************************************)
MsgTypes == {"Users", "Register", "Message"}

\* the tag serde writes and reads for a variant
Tag(kind) ==
    CASE kind = "Users" -> <<"u","s","e","r","s">>
      [] kind = "Register" -> <<"r","e","g","i","s","t","e","r">>
      [] kind = "Message" -> <<"m","e","s","s","a","g","e">>

Ok(v) == [ok |-> TRUE, v |-> v]
Err(v) == [ok |-> FALSE, v |-> v]

\* a unit variant is read from its tag, or from the one-member object {tag: null}
DeMsgTypes(j) ==
    LET name == IF j.t = "str" THEN Some(j.s)
                ELSE IF j.t = "obj" /\ Len(j.k) = 1 /\ j.a[1].t = "null" THEN Some(j.k[1])
                ELSE None
        hit == {kind \in MsgTypes : name = Some(Tag(kind))}
    IN  IF hit = {} THEN Err("Users") ELSE Ok(CHOOSE kind \in hit : TRUE)

\* Option<String>
DeOptString(j) ==
    IF j.t = "null" THEN Ok(None)
    ELSE IF j.t = "str" THEN Ok(Some(j.s))
    ELSE Err(None)

\* Option<Vec<String>>
DeOptVecString(j) ==
    IF j.t = "null" THEN Ok(None)
    ELSE IF j.t = "arr" /\ \A n \in 1..Len(j.a) : j.a[n].t = "str"
         THEN Ok(Some([n \in 1..Len(j.a) |-> j.a[n].s]))
    ELSE Err(None)

\* String
DeString(j) == IF j.t = "str" THEN Ok(j.s) ELSE Err(<<>>)

\* the positions of member `key` in object j
Members(j, key) == {n \in 1..Len(j.k) : j.k[n] = key}
Member(j, key) == j.a[CHOOSE n \in Members(j, key) : TRUE]

K_messageType == <<"m","e","s","s","a","g","e","T","y","p","e">>
K_dataArray == <<"d","a","t","a","A","r","r","a","y">>
K_data == <<"d","a","t","a">>
K_from == <<"f","r","o","m">>
K_message == <<"m","e","s","s","a","g","e">>

(***************************************************************************)
(* WebSocketMessage, with #[serde(rename_all = "camelCase")]: read from an *)
(* object (unknown members skipped, a repeated member an error, a missing  *)
(* Option member None, a missing messageType an error) or from an array of *)
(* its three fields in order.                                              *)
(***************************************************************************)
WebSocketMessage(kind, list, str) ==
    [message_type |-> kind, data_array |-> list, data |-> str]

NoMessage == WebSocketMessage("Users", None, None)

DeWebSocketMessage(j) ==
    LET has(key) == Members(j, key) # {}
        mt == IF j.t = "obj" THEN DeMsgTypes(Member(j, K_messageType))
              ELSE DeMsgTypes(j.a[1])
        da == IF j.t = "arr" THEN DeOptVecString(j.a[2])
              ELSE IF has(K_dataArray) THEN DeOptVecString(Member(j, K_dataArray))
              ELSE Ok(None)
        d  == IF j.t = "arr" THEN DeOptString(j.a[3])
              ELSE IF has(K_data) THEN DeOptString(Member(j, K_data))
              ELSE Ok(None)
        shape == IF j.t = "obj"
                 THEN /\ Cardinality(Members(j, K_messageType)) = 1
                      /\ Cardinality(Members(j, K_dataArray)) <= 1
                      /\ Cardinality(Members(j, K_data)) <= 1
                 ELSE j.t = "arr" /\ Len(j.a) = 3
    IN  IF shape /\ mt.ok /\ da.ok /\ d.ok
        THEN Ok(WebSocketMessage(mt.v, da.v, d.v))
        ELSE Err(NoMessage)

\* serde_json::from_str::<WebSocketMessage>
from_str_WebSocketMessage(s) ==
    LET r == ParseJson(s) IN
    IF r.ok THEN DeWebSocketMessage(r.v) ELSE Err(NoMessage)

(***************************************************************************)
(* MessageData: both members are required strings.                         *)
(***************************************************************************)
MessageData(from, message) == [from |-> from, message |-> message]

NoData == MessageData(<<>>, <<>>)

DeMessageData(j) ==
    LET f == IF j.t = "obj" THEN DeString(Member(j, K_from)) ELSE DeString(j.a[1])
        m == IF j.t = "obj" THEN DeString(Member(j, K_message)) ELSE DeString(j.a[2])
        shape == IF j.t = "obj"
                 THEN /\ Cardinality(Members(j, K_from)) = 1
                      /\ Cardinality(Members(j, K_message)) = 1
                 ELSE j.t = "arr" /\ Len(j.a) = 2
    IN  IF shape /\ f.ok /\ m.ok THEN Ok(MessageData(f.v, m.v)) ELSE Err(NoData)

\* serde_json::from_str::<MessageData>
from_str_MessageData(s) ==
    LET r == ParseJson(s) IN
    IF r.ok THEN DeMessageData(r.v) ELSE Err(NoData)

(***************************************************************************)
(* serde_json::to_string of a WebSocketMessage: its three fields in the    *)
(* order of the struct, None written as null, strings escaped.             *)
(***************************************************************************)
\* a writer that escapes nothing
EscapeNothing(c) == <<c>>

EscapeChar(c) ==
    CASE c = "\"" -> <<"\\", "\"">>
      [] c = "\\" -> <<"\\", "\\">>
      [] c = "\n" -> <<"\\", "n">>
      [] c = "\t" -> <<"\\", "t">>
      [] c = "\r" -> <<"\\", "r">>
      [] OTHER -> <<c>>

RECURSIVE Escape(_)
Escape(s) == IF s = <<>> THEN <<>> ELSE EscapeChar(Head(s)) \o Escape(Tail(s))

SerString(s) == <<"\"">> \o Escape(s) \o <<"\"">>

RECURSIVE SerElems(_)
SerElems(list) ==
    IF list = <<>> THEN <<>>
    ELSE IF Len(list) = 1 THEN SerString(list[1])
    ELSE SerString(Head(list)) \o <<",">> \o SerElems(Tail(list))

SerNull == <<"n","u","l","l">>

SerOptVecString(o) ==
    IF o = None THEN SerNull ELSE <<"[">> \o SerElems(o[1]) \o <<"]">>

SerOptString(o) == IF o = None THEN SerNull ELSE SerString(o[1])

to_string(msg) ==
    <<"{">> \o SerString(K_messageType) \o <<":">> \o SerString(Tag(msg.message_type))
      \o <<",">> \o SerString(K_dataArray) \o <<":">> \o SerOptVecString(msg.data_array)
      \o <<",">> \o SerString(K_data) \o <<":">> \o SerOptString(msg.data)
      \o <<"}">>

(***************************************************************************)
(* The inputs of the model.                                                *)
(***************************************************************************)
\* the username the User context holds
Usernames == {<<"a">>, <<"b">>}

\* what the user may type into the input element
Inputs == {<<>>, <<" ">>, <<"h","i">>}

\* the text frames the EventBus may deliver
\* oops
FrameGarbage ==
    <<"o","o","p","s">>
\* {"messageType":"bogus"}
FrameBogusType ==
    <<"{","\"","m","e","s","s","a","g","e","T","y","p","e","\"",":","\"","b","o","g","u","s","\"","}">>
\* {"messageType":"users","dataArray":["a","b","a"]}
FrameUsersABA ==
    <<"{","\"","m","e","s","s","a","g","e","T","y","p","e","\"",":","\"","u","s","e","r","s","\"",",","\"","d","a","t","a","A","r","r","a","y","\"",":","[","\"","a","\"",",","\"","b","\"",",","\"","a","\"","]","}">>
\* {"messageType":"users","dataArray":["b"],"data":null}
FrameUsersB ==
    <<"{","\"","m","e","s","s","a","g","e","T","y","p","e","\"",":","\"","u","s","e","r","s","\"",",","\"","d","a","t","a","A","r","r","a","y","\"",":","[","\"","b","\"","]",",","\"","d","a","t","a","\"",":","n","u","l","l","}">>
\* {"messageType":"users"}
FrameUsersAbsent ==
    <<"{","\"","m","e","s","s","a","g","e","T","y","p","e","\"",":","\"","u","s","e","r","s","\"","}">>
\* {"messageType":"users","dataArray":null}
FrameUsersNull ==
    <<"{","\"","m","e","s","s","a","g","e","T","y","p","e","\"",":","\"","u","s","e","r","s","\"",",","\"","d","a","t","a","A","r","r","a","y","\"",":","n","u","l","l","}">>
\* {"messageType":"message","data":"{\"from\":\"b\",\"message\":\"hi\"}"}
FrameMsgBHi ==
    <<"{","\"","m","e","s","s","a","g","e","T","y","p","e","\"",":","\"","m","e","s","s","a","g","e","\"",",","\"","d","a","t","a","\"",":","\"","{","\\","\"","f","r","o","m","\\","\"",":","\\","\"","b","\\","\"",",","\\","\"","m","e","s","s","a","g","e","\\","\"",":","\\","\"","h","i","\\","\"","}","\"","}">>
\* {"messageType":"message","data":"{\"from\":\"a\",\"message\":\"p.gif\"}"}
FrameMsgAGif ==
    <<"{","\"","m","e","s","s","a","g","e","T","y","p","e","\"",":","\"","m","e","s","s","a","g","e","\"",",","\"","d","a","t","a","\"",":","\"","{","\\","\"","f","r","o","m","\\","\"",":","\\","\"","a","\\","\"",",","\\","\"","m","e","s","s","a","g","e","\\","\"",":","\\","\"","p",".","g","i","f","\\","\"","}","\"","}">>
\* {"messageType":"message","data":"{\"from\":\"\",\"message\":\"yo\"}"}
FrameMsgNoSender ==
    <<"{","\"","m","e","s","s","a","g","e","T","y","p","e","\"",":","\"","m","e","s","s","a","g","e","\"",",","\"","d","a","t","a","\"",":","\"","{","\\","\"","f","r","o","m","\\","\"",":","\\","\"","\\","\"",",","\\","\"","m","e","s","s","a","g","e","\\","\"",":","\\","\"","y","o","\\","\"","}","\"","}">>
\* {"messageType":"message","data":"not-json"}
FrameMsgNotJson ==
    <<"{","\"","m","e","s","s","a","g","e","T","y","p","e","\"",":","\"","m","e","s","s","a","g","e","\"",",","\"","d","a","t","a","\"",":","\"","n","o","t","-","j","s","o","n","\"","}">>
\* {"messageType":"message","data":null}
FrameMsgNoData ==
    <<"{","\"","m","e","s","s","a","g","e","T","y","p","e","\"",":","\"","m","e","s","s","a","g","e","\"",",","\"","d","a","t","a","\"",":","n","u","l","l","}">>
\* {"messageType":"message"}
FrameMsgAbsentData ==
    <<"{","\"","m","e","s","s","a","g","e","T","y","p","e","\"",":","\"","m","e","s","s","a","g","e","\"","}">>
\* {"messageType":"register","data":"b"}
FrameRegister ==
    <<"{","\"","m","e","s","s","a","g","e","T","y","p","e","\"",":","\"","r","e","g","i","s","t","e","r","\"",",","\"","d","a","t","a","\"",":","\"","b","\"","}">>

Frames ==
    { FrameGarbage, FrameBogusType, FrameUsersABA, FrameUsersB, FrameUsersAbsent,
      FrameUsersNull, FrameMsgBHi, FrameMsgAGif, FrameMsgNoSender, FrameMsgNotJson,
      FrameMsgNoData, FrameMsgAbsentData, FrameRegister }

\* serde_json::from_str::<WebSocketMessage> on the frames, evaluated once
EnvelopeOf == [s \in Frames |-> from_str_WebSocketMessage(s)]

\* the data strings the frames carry
Payloads == {EnvelopeOf[s].v.data[1] : s \in {f \in Frames : EnvelopeOf[f].v.data # None}}

\* serde_json::from_str::<MessageData> on those strings, evaluated once
PayloadOf == [d \in Payloads |-> from_str_MessageData(d)]

(***************************************************************************)
(* The state.                                                              *)
(***************************************************************************)
VARIABLES
    phase,       \* "unmounted", "active" (Chat exists), "panicked" (an unwrap failed)
    username,    \* user.username of the User context
    users,       \* Chat.users
    messages,    \* Chat.messages
    rendered,    \* Chat.chat_input is attached to the input element
    chat_input,  \* the value of the input element
    html,        \* what the last call of view returned
    ret,         \* what the last call of update returned: "none", "true", "false"
    sends,       \* every try_send on wss.tx, in order: the frame and whether it was accepted
    received,    \* every frame the EventBus delivered, in order
    handled,     \* how many of them reached Msg::HandleMsg
    submits,     \* how many Msg::SubmitMessage were handled
    envelope,    \* codec round trip: the WebSocketMessage value
    wire,        \* codec round trip: its text
    decoded,     \* codec round trip: what reading the text gave
    cpc          \* codec round trip: "idle", "start", "encoded", "decoded"

chat == <<phase, username, users, messages, rendered, chat_input, html, ret,
          sends, received, handled, submits>>
codec == <<envelope, wire, decoded, cpc>>
vars == <<phase, username, users, messages, rendered, chat_input, html, ret,
          sends, received, handled, submits, envelope, wire, decoded, cpc>>

\* the frames delivered and the clicks handled so far
Events == Len(received) + submits

(***************************************************************************)
(* UserProfile and the avatar URL (lines 93-100).                          *)
(***************************************************************************)
AvatarPrefix ==
    <<"h","t","t","p","s",":","/","/","a","v","a","t","a","r","s",".","d","i","c","e",
      "b","e","a","r",".","c","o","m","/","a","p","i","/","a","d","v","e","n","t","u",
      "r","e","r","-","n","e","u","t","r","a","l","/">>

AvatarUrl(u) == AvatarPrefix \o u \o <<".","s","v","g">>

UserProfile(u) == [name |-> u, avatar |-> AvatarUrl(u)]

(***************************************************************************)
(* Chat::view: the roster rows and the message bubbles.                    *)
(***************************************************************************)
\* a test for the suffix anywhere in the string
contains(s, suffix) ==
    \E i \in 1..Len(s) :
        /\ i + Len(suffix) - 1 <= Len(s)
        /\ SubSeq(s, i, i + Len(suffix) - 1) = suffix

\* str::ends_with (line 196)
ends_with(s, suffix) ==
    /\ Len(s) >= Len(suffix)
    /\ SubSeq(s, Len(s) - Len(suffix) + 1, Len(s)) = suffix

\* self.users.iter().find(|u| u.name == from), as an Option of the avatar
\* a lookup that gives every sender an avatar, in the roster or not
FindAvatarAnyone(from) == Some(AvatarUrl(from))

FindAvatar(from) ==
    LET hits == {n \in 1..Len(users) : users[n].name = from} IN
    IF hits = {} THEN None
    ELSE Some(users[CHOOSE n \in hits : \A m \in hits : n <= m].avatar)

Bubble(m) ==
    LET is_self == m.from = username IN
    [ from |-> m.from,
      is_self |-> is_self,
      avatar |-> IF ~is_self THEN FindAvatar(m.from) ELSE None,
      image |-> ends_with(m.message, <<".","g","i","f">>),
      body |-> m.message ]

View ==
    [ roster |-> users,
      bubbles |-> [n \in 1..Len(messages) |-> Bubble(messages[n])] ]

NoHtml == [roster |-> <<>>, bubbles |-> <<>>]

(***************************************************************************)
(* The transport channel: wss.tx.try_send accepts the frame or rejects it  *)
(* (the channel is full or closed).                                        *)
(***************************************************************************)
TrySendResults == BOOLEAN

Attempt(frame, ok) == [frame |-> frame, ok |-> ok]

(***************************************************************************)
(* Chat::create (lines 53-82).  The User context is set before the         *)
(* component is mounted, so the expect at line 57 does not fail, and       *)
(* to_string of a WebSocketMessage never fails.  The result of try_send is *)
(* only logged.                                                            *)
(***************************************************************************)
RegisterMessage(name) == WebSocketMessage("Register", None, Some(name))

Create ==
    /\ phase = "unmounted"
    /\ \E ok \in TrySendResults :
          sends' = Append(sends, Attempt(to_string(RegisterMessage(username)), ok))
    /\ users' = <<>>
    /\ messages' = <<>>
    /\ phase' = "active"
    /\ UNCHANGED <<username, rendered, chat_input, html, ret, received, handled, submits>>
    /\ UNCHANGED codec

(***************************************************************************)
(* Chat::view (lines 138-232), called after create and after every update  *)
(* that returned true, before the next message is handled.                 *)
(***************************************************************************)
Stale == ~rendered \/ html # View

Render ==
    /\ phase = "active"
    /\ Stale
    /\ html' = View
    /\ rendered' = TRUE
    /\ UNCHANGED <<phase, username, users, messages, chat_input, ret, sends, received,
                   handled, submits>>
    /\ UNCHANGED codec

(***************************************************************************)
(* Chat::update, Msg::HandleMsg (lines 86-114).  The outcome of one frame: *)
(* the stores, the value returned, and whether an unwrap panicked.  A      *)
(* panic ends the component: nothing it holds changes any more.            *)
(***************************************************************************)
Outcome(u, m, r, p) == [users |-> u, messages |-> m, ret |-> r, panic |-> p]

\* an unwrap on Err or None: the handler does not return
Panic == Outcome(users, messages, "none", TRUE)

\* the list without the names it repeats
RECURSIVE Dedup(_)
Dedup(list) ==
    IF list = <<>> THEN <<>>
    ELSE LET front == Dedup(SubSeq(list, 1, Len(list) - 1)) IN
         IF \E n \in 1..Len(front) : front[n] = list[Len(list)] THEN front
         ELSE Append(front, list[Len(list)])

\* a reducer that keeps one profile for each name
OnUsersDedup(msg) ==
    LET users_from_message ==
            Dedup(IF msg.data_array = None THEN <<>> ELSE msg.data_array[1]) IN
    Outcome([n \in 1..Len(users_from_message) |-> UserProfile(users_from_message[n])],
            messages, "true", FALSE)

\* a reducer that adds the list to the roster instead of replacing it
OnUsersMerge(msg) ==
    LET users_from_message == IF msg.data_array = None THEN <<>> ELSE msg.data_array[1] IN
    Outcome(users \o [n \in 1..Len(users_from_message) |-> UserProfile(users_from_message[n])],
            messages, "true", FALSE)

\* lines 89-103
OnUsers(msg) ==
    LET users_from_message == IF msg.data_array = None THEN <<>> ELSE msg.data_array[1] IN
    Outcome([n \in 1..Len(users_from_message) |-> UserProfile(users_from_message[n])],
            messages, "true", FALSE)

\* a reducer that drops a message whose from is empty
OnMessageSkipsAnonymous(msg) ==
    IF msg.data = None THEN Panic
    ELSE IF ~PayloadOf[msg.data[1]].ok THEN Panic
    ELSE IF PayloadOf[msg.data[1]].v.from = <<>> THEN Outcome(users, messages, "false", FALSE)
    ELSE Outcome(users, Append(messages, PayloadOf[msg.data[1]].v), "true", FALSE)

\* a reducer that resets the roster when it logs a message
OnMessageResetsRoster(msg) ==
    IF msg.data = None THEN Panic
    ELSE IF ~PayloadOf[msg.data[1]].ok THEN Panic
    ELSE Outcome(<<>>, Append(messages, PayloadOf[msg.data[1]].v), "true", FALSE)

\* lines 104-109
OnMessage(msg) ==
    IF msg.data = None THEN Panic
    ELSE IF ~PayloadOf[msg.data[1]].ok THEN Panic
    ELSE Outcome(users, Append(messages, PayloadOf[msg.data[1]].v), "true", FALSE)

\* a reducer that asks for a render on every envelope
OnOtherRerenders(msg) == Outcome(users, messages, "true", FALSE)

\* lines 110-112
OnOther(msg) == Outcome(users, messages, "false", FALSE)

\* lines 87-113
Handle(s) ==
    LET msg == EnvelopeOf[s] IN
    IF ~msg.ok THEN Panic
    ELSE CASE msg.v.message_type = "Users" -> OnUsers(msg.v)
           [] msg.v.message_type = "Message" -> OnMessage(msg.v)
           [] OTHER -> OnOther(msg.v)

HandleMsg(s) ==
    /\ phase = "active"
    /\ ~Stale
    /\ Events < MaxEvents
    /\ received' = Append(received, s)
    /\ handled' = handled + 1
    /\ users' = Handle(s).users
    /\ messages' = Handle(s).messages
    /\ ret' = Handle(s).ret
    /\ phase' = IF Handle(s).panic THEN "panicked" ELSE "active"
    /\ UNCHANGED <<username, rendered, chat_input, html, sends, submits>>
    /\ UNCHANGED codec

\* a frame delivered after a panic: the component is dead and update is not
\* called for it
DropFrame(s) ==
    /\ phase = "panicked"
    /\ Events < MaxEvents
    /\ received' = Append(received, s)
    /\ UNCHANGED <<phase, username, users, messages, rendered, chat_input, html, ret,
                   sends, handled, submits>>
    /\ UNCHANGED codec

(***************************************************************************)
(* The user edits the input element (lines 215-221).  Edits are followed   *)
(* while the component is alive and a click may still come.                *)
(***************************************************************************)
TypeInput(text) ==
    /\ phase = "active"
    /\ rendered
    /\ Events < MaxEvents
    /\ text # chat_input
    /\ chat_input' = text
    /\ UNCHANGED <<phase, username, users, messages, rendered, html, ret, sends,
                   received, handled, submits>>
    /\ UNCHANGED codec

(***************************************************************************)
(* Chat::update, Msg::SubmitMessage (lines 115-134): the button's onclick. *)
(***************************************************************************)
\* a composer that tags its envelope Register
SubmitEnvelopeAsRegister(text) == WebSocketMessage("Register", None, Some(text))

\* a composer that puts the text in the payload list
SubmitEnvelopeInList(text) == WebSocketMessage("Message", Some(<<text>>), None)

\* lines 118-122
SubmitEnvelope(text) == WebSocketMessage("Message", None, Some(text))

\* a composer that sends again when the channel rejects the frame
SubmitSendsRetry(frame, ok) ==
    IF ok THEN Append(sends, Attempt(frame, ok))
    ELSE Append(Append(sends, Attempt(frame, ok)), Attempt(frame, TRUE))

\* lines 123-130: one try_send, its error logged
SubmitSends(frame, ok) == Append(sends, Attempt(frame, ok))

\* a composer that logs the text it sends as a message of the local user
LogEchoed(text) == Append(messages, MessageData(username, text))

\* lines 115-134: self.messages is not written
LogAfterSubmit(text) == messages

\* a composer that clears the input only when the frame was accepted
InputKeptOnFailure(ok) == IF ok THEN <<>> ELSE chat_input

\* line 131
InputAfterSubmit(ok) == <<>>

SubmitMessage ==
    /\ phase = "active"
    /\ ~Stale
    /\ Events < MaxEvents
    /\ submits' = submits + 1
    /\ IF rendered
       THEN \E ok \in TrySendResults :
               /\ sends' = SubmitSends(to_string(SubmitEnvelope(chat_input)), ok)
               /\ chat_input' = InputAfterSubmit(ok)
       ELSE UNCHANGED <<sends, chat_input>>
    /\ messages' = LogAfterSubmit(chat_input)
    /\ ret' = "false"
    /\ UNCHANGED <<phase, username, users, rendered, html, received, handled>>
    /\ UNCHANGED codec

(***************************************************************************)
(* The component.                                                          *)
(***************************************************************************)
\* before Chat::create: no component, nothing sent, nothing delivered
Unmounted ==
    /\ phase = "unmounted"
    /\ username \in Usernames
    /\ users = <<>>
    /\ messages = <<>>
    /\ rendered = FALSE
    /\ chat_input = <<>>
    /\ html = NoHtml
    /\ ret = "none"
    /\ sends = <<>>
    /\ received = <<>>
    /\ handled = 0
    /\ submits = 0

Init ==
    /\ Unmounted
    /\ envelope = NoMessage
    /\ wire = <<>>
    /\ decoded = Err(NoMessage)
    /\ cpc = "idle"

Next ==
    \/ Create
    \/ Render
    \/ \E s \in Frames : HandleMsg(s)
    \/ \E s \in Frames : DropFrame(s)
    \/ \E text \in Inputs : TypeInput(text)
    \/ SubmitMessage

Spec == Init /\ [][Next]_vars

(***************************************************************************)
(* The codec alone: a WebSocketMessage value is written by to_string and   *)
(* the text is read back by from_str.                                      *)
(***************************************************************************)
CodecStrings == {<<>>, <<"a">>, <<"\"">>, <<"\\", "n">>, <<"a", "\n", " ">>, <<"{", "}">>}

RECURSIVE SeqsUpTo(_, _)
SeqsUpTo(S, n) ==
    IF n = 0 THEN {<<>>}
    ELSE SeqsUpTo(S, n - 1) \cup {Append(q, x) : q \in SeqsUpTo(S, n - 1), x \in S}

Optional(S) == {None} \cup {Some(x) : x \in S}

Envelopes ==
    { WebSocketMessage(kind, list, str) :
        kind \in MsgTypes,
        list \in Optional(SeqsUpTo(CodecStrings, MaxList)),
        str \in Optional(CodecStrings) }

CodecInit ==
    /\ Unmounted
    /\ envelope \in Envelopes
    /\ wire = <<>>
    /\ decoded = Err(NoMessage)
    /\ cpc = "start"

CodecEncode ==
    /\ cpc = "start"
    /\ wire' = to_string(envelope)
    /\ cpc' = "encoded"
    /\ UNCHANGED <<envelope, decoded>>
    /\ UNCHANGED chat

CodecDecode ==
    /\ cpc = "encoded"
    /\ decoded' = from_str_WebSocketMessage(wire)
    /\ cpc' = "decoded"
    /\ UNCHANGED <<envelope, wire>>
    /\ UNCHANGED chat

CodecNext == CodecEncode \/ CodecDecode

SpecCodec == CodecInit /\ [][CodecNext]_vars

(***************************************************************************)
(* The view alone: the component has been created and rendered, one       *)
(* Message envelope carrying {from, message} has been handled, and view    *)
(* is called for the log that holds its message.                           *)
(***************************************************************************)
PartyGif == <<"p","a","r","t","y",".","g","i","f">>
PartyGifTxt == <<"p","a","r","t","y",".","g","i","f",".","t","x","t">>
PartyGifUpper == <<"P","A","R","T","Y",".","G","I","F">>

GifChars == {".", "g", "i", "f", "G"}

Bodies == SeqsUpTo(GifChars, MaxBody) \cup {PartyGif, PartyGifTxt, PartyGifUpper}

\* the text of {"from":from,"message":body}
ChatPayload(from, body) ==
    <<"{">> \o SerString(K_from) \o <<":">> \o SerString(from)
      \o <<",">> \o SerString(K_message) \o <<":">> \o SerString(body) \o <<"}">>

\* the text of the Message envelope whose data is that text
ChatFrame(from, body) ==
    <<"{">> \o SerString(K_messageType) \o <<":">> \o SerString(Tag("Message"))
      \o <<",">> \o SerString(K_data) \o <<":">> \o SerString(ChatPayload(from, body))
      \o <<"}">>

ViewInit ==
    /\ phase = "active"
    /\ username \in Usernames
    /\ users = <<>>
    /\ \E body \in Bodies :
          LET s == ChatFrame(<<"b">>, body)
              msg == from_str_WebSocketMessage(s)
              message_data == from_str_MessageData(msg.v.data[1])
          IN  /\ msg.ok
              /\ msg.v.message_type = "Message"
              /\ message_data.ok
              /\ received = <<s>>
              /\ messages = <<message_data.v>>
    /\ handled = 1
    /\ ret = "true"
    /\ rendered = TRUE
    /\ html = NoHtml
    /\ chat_input = <<>>
    /\ sends = <<Attempt(to_string(RegisterMessage(username)), TRUE)>>
    /\ submits = 0
    /\ envelope = NoMessage
    /\ wire = <<>>
    /\ decoded = Err(NoMessage)
    /\ cpc = "idle"

ViewNext == Render

SpecView == ViewInit /\ [][ViewNext]_vars

(***************************************************************************)
(* What the frames of the model say, read off their text.                  *)
(***************************************************************************)
Last(q) == q[Len(q)]

\* not valid JSON, or no recognized messageType
MalformedEnvelopes == {FrameGarbage, FrameBogusType}

UsersEnvelopes == {FrameUsersABA, FrameUsersB, FrameUsersAbsent, FrameUsersNull}

\* the list of a Users envelope, empty when dataArray is absent or null
ListOf(s) ==
    CASE s = FrameUsersABA -> << <<"a">>, <<"b">>, <<"a">> >>
      [] s = FrameUsersB -> << <<"b">> >>
      [] OTHER -> << >>

\* Message envelopes whose data is JSON text for {from, message}
ChatEnvelopes == {FrameMsgBHi, FrameMsgAGif, FrameMsgNoSender}

ChatOf(s) ==
    CASE s = FrameMsgBHi -> [from |-> <<"b">>, message |-> <<"h","i">>]
      [] s = FrameMsgAGif -> [from |-> <<"a">>, message |-> <<"p",".","g","i","f">>]
      [] s = FrameMsgNoSender -> [from |-> <<>>, message |-> <<"y","o">>]

\* the roster a list stands for
RosterOf(list) ==
    [n \in 1..Len(list) |-> [name |-> list[n], avatar |-> AvatarUrl(list[n])]]

\* the log a sequence of frames stands for
RECURSIVE LogOf(_)
LogOf(frames) ==
    IF frames = <<>> THEN <<>>
    ELSE IF Last(frames) \in ChatEnvelopes
         THEN Append(LogOf(SubSeq(frames, 1, Len(frames) - 1)), ChatOf(Last(frames)))
         ELSE LogOf(SubSeq(frames, 1, Len(frames) - 1))

(***************************************************************************)
(* C1.  Handling a frame that is not valid JSON, or that names no known    *)
(* messageType, does not crash the client: the component stays active, the *)
(* roster and the log are as they were, and every frame delivered          *)
(* afterwards still reaches the handler.                                   *)
(* The code unwraps the decode result (line 87) and panics.                *)
(***************************************************************************)
C1_MalformedEnvelopeSurvived ==
    [][ /\ (handled' = handled + 1 /\ Last(received') \in MalformedEnvelopes)
            => (phase' = "active" /\ users' = users /\ messages' = messages)
        /\ (received' # received) => (handled' = handled + 1) ]_vars

(***************************************************************************)
(* C2.  Handling a Message envelope whose data is not JSON text for        *)
(* {from, message} drops the frame: the component stays active, the roster *)
(* and the log are as they were, and update returns false.                 *)
(* The code unwraps the nested decode result (line 106) and panics.        *)
(***************************************************************************)
C2_MalformedChatPayloadDropped ==
    [][ (handled' = handled + 1 /\ Last(received') = FrameMsgNotJson)
            => /\ phase' = "active"
               /\ users' = users
               /\ messages' = messages
               /\ ret' = "false" ]_vars

(***************************************************************************)
(* C3.  The roster is exactly the profiles {name: u, avatar: AvatarUrl(u)} *)
(* of the list of the last Users envelope handled, in the order of that    *)
(* list, whatever the roster was before; it is empty when none was handled.*)
(***************************************************************************)
C3_RosterIsLastUsersEnvelope ==
    LET at == {n \in 1..handled : received[n] \in UsersEnvelopes} IN
    users = IF at = {} THEN <<>>
            ELSE RosterOf(ListOf(received[CHOOSE n \in at : \A m \in at : m <= n]))

\* a roster of three was replaced by the roster of a list of one
C3_Witness ==
    /\ handled = 2
    /\ received[1] = FrameUsersABA
    /\ received[2] = FrameUsersB
    /\ Len(users) = 1
    /\ users[1].name = <<"b">>

(***************************************************************************)
(* C4.  After any sequence of inbound frames the log is exactly the        *)
(* {from, message} of the well-formed Message envelopes received, in       *)
(* arrival order, duplicates kept; each step leaves the log as it was or   *)
(* appends one entry.                                                      *)
(* After a panic (C1, C2) the frames that arrive are no longer logged.     *)
(***************************************************************************)
C4_LogIsChatEnvelopesReceived ==
    [][ /\ messages' = LogOf(received')
        /\ \/ messages' = messages
           \/ \E m \in {ChatOf(s) : s \in ChatEnvelopes} : messages' = Append(messages, m)
      ]_vars

(***************************************************************************)
(* C5.  Handling a frame changes at most one store: a well-formed Message  *)
(* envelope appends its entry to the log and leaves the roster, a Users    *)
(* envelope replaces the roster and leaves the log.                        *)
(***************************************************************************)
C5_OneStorePerFrame ==
    [][ (handled' = handled + 1) =>
           /\ users' = users \/ messages' = messages
           /\ Last(received') \in ChatEnvelopes
                 => /\ messages' = Append(messages, ChatOf(Last(received')))
                    /\ users' = users
           /\ Last(received') \in UsersEnvelopes
                 => /\ users' = RosterOf(ListOf(Last(received')))
                    /\ messages' = messages ]_vars

\* a Message envelope was logged beside a roster of three, then the roster replaced
C5_Witness ==
    /\ handled = 3
    /\ received = <<FrameUsersABA, FrameMsgBHi, FrameUsersB>>
    /\ Len(users) = 1
    /\ messages = <<ChatOf(FrameMsgBHi)>>

(***************************************************************************)
(* C6.  A click on the send button while the input is empty or holds only  *)
(* whitespace sends nothing.                                               *)
(* The code reads input.value() and sends it whatever it is (lines         *)
(* 117-130); required=true on an input outside a form stops no click.      *)
(***************************************************************************)
Blank == {<<>>, <<" ">>}

C6_BlankSubmitSendsNothing ==
    [][ (submits' = submits + 1 /\ chat_input \in Blank) => sends' = sends ]_vars

(***************************************************************************)
(* What the frames written to the channel say, read back by the codec.     *)
(***************************************************************************)
SentFrames ==
    {to_string(RegisterMessage(u)) : u \in Usernames}
        \cup {to_string(SubmitEnvelope(text)) : text \in Inputs}

SentEnvelopeOf == [f \in SentFrames |-> from_str_WebSocketMessage(f)]

(***************************************************************************)
(* C7.  Once the component is created, the first frame written to the      *)
(* channel is a Register envelope with data the local username and         *)
(* dataArray null, and no frame written after it is a Register envelope;   *)
(* before creation nothing is written.                                     *)
(***************************************************************************)
C7_OneRegisterAtActivation ==
    IF phase = "unmounted" THEN sends = <<>>
    ELSE /\ Len(sends) >= 1
         /\ SentEnvelopeOf[sends[1].frame]
               = Ok(WebSocketMessage("Register", None, Some(username)))
         /\ \A n \in 2..Len(sends) :
               SentEnvelopeOf[sends[n].frame].v.message_type # "Register"

\* a frame was handled and a click sent a second frame
C7_Witness ==
    /\ phase = "active"
    /\ handled = 1
    /\ submits = 1
    /\ Len(sends) = 2

(***************************************************************************)
(* C8.  Reading the text to_string writes for an envelope gives the        *)
(* envelope back, and the text starts with the messageType member holding  *)
(* the lower-cased kind.                                                   *)
(***************************************************************************)
LowerCased(kind) ==
    CASE kind = "Users" -> <<"\"","u","s","e","r","s","\"">>
      [] kind = "Register" -> <<"\"","r","e","g","i","s","t","e","r","\"">>
      [] kind = "Message" -> <<"\"","m","e","s","s","a","g","e","\"">>

WireHead(kind) ==
    <<"{","\"","m","e","s","s","a","g","e","T","y","p","e","\"",":">> \o LowerCased(kind)

C8_CodecRoundTrip ==
    /\ cpc \in {"encoded", "decoded"} =>
          /\ Len(wire) >= Len(WireHead(envelope.message_type))
          /\ SubSeq(wire, 1, Len(WireHead(envelope.message_type)))
                = WireHead(envelope.message_type)
    /\ cpc = "decoded" => decoded = Ok(envelope)

\* an envelope whose strings need escaping went through the codec
C8_Witness ==
    /\ cpc = "decoded"
    /\ envelope.message_type = "Message"
    /\ envelope.data = Some(<<"\"">>)
    /\ envelope.data_array = Some(<< <<"\\", "n">>, <<"a", "\n", " ">> >>)

(***************************************************************************)
(* C9.  A try_send the channel rejects is not fatal and is not repeated:   *)
(* the step leaves the component active and the roster and the log as they *)
(* were, it writes one frame, and the frames written are one for the       *)
(* activation and one for each click.                                      *)
(***************************************************************************)
C9_RejectedSendNotFatalNotRetried ==
    [][ /\ (Len(sends') > Len(sends) /\ ~Last(sends').ok)
            => /\ Len(sends') = Len(sends) + 1
               /\ phase' = "active"
               /\ users' = users
               /\ messages' = messages
        /\ Len(sends') = 1 + submits' ]_vars

\* the Register and a Message were both rejected, and a roster arrived all the same
C9_Witness ==
    /\ phase = "active"
    /\ Len(sends) = 2
    /\ ~sends[1].ok
    /\ ~sends[2].ok
    /\ handled >= 1
    /\ users # <<>>

(***************************************************************************)
(* C10.  A click on the send button with text in the input leaves the      *)
(* input empty, whether the channel accepted the frame or not.             *)
(***************************************************************************)
C10_InputClearedAfterSubmit ==
    [][ (submits' = submits + 1 /\ chat_input # <<>>) => chat_input' = <<>> ]_vars

\* the text "hi" was submitted, the channel rejected it, and the input is empty
C10_Witness ==
    /\ submits = 1
    /\ Len(sends) = 2
    /\ Last(sends) = Attempt(to_string(SubmitEnvelope(<<"h","i">>)), FALSE)
    /\ chat_input = <<>>

(***************************************************************************)
(* C11.  Handling an inbound Register envelope is no error and changes     *)
(* nothing: the component stays active, the roster and the log are as they *)
(* were, nothing is written to the channel, and update returns false.      *)
(***************************************************************************)
C11_InboundRegisterIgnored ==
    [][ (handled' = handled + 1 /\ Last(received') = FrameRegister)
            => /\ phase' = "active"
               /\ users' = users
               /\ messages' = messages
               /\ sends' = sends
               /\ ret' = "false" ]_vars

\* a Register envelope was handled while a roster was held
C11_Witness ==
    /\ phase = "active"
    /\ handled = 2
    /\ received = <<FrameUsersB, FrameRegister>>
    /\ ret = "false"
    /\ Len(users) = 1

(***************************************************************************)
(* The frames handled so far, and the list of the last Users envelope      *)
(* among them.                                                             *)
(***************************************************************************)
HandledFrames == SubSeq(received, 1, handled)

LastUsersList ==
    LET at == {n \in 1..handled : received[n] \in UsersEnvelopes} IN
    IF at = {} THEN <<>> ELSE ListOf(received[CHOOSE n \in at : \A m \in at : m <= n])

HasRepeat(q) == \E i \in 1..Len(q) : \E j \in 1..Len(q) : i < j /\ q[i] = q[j]

Names(roster) == [n \in 1..Len(roster) |-> roster[n].name]

(***************************************************************************)
(* C12, as stated.  No two entries of the roster have the same name, also  *)
(* after a Users envelope whose list names a user twice.                   *)
(***************************************************************************)
C12_RosterNamesUnique == ~HasRepeat(Names(users))

(***************************************************************************)
(* C12, amended.  The roster names a user twice exactly when the list of   *)
(* the last Users envelope handled does: names are unique in the roster    *)
(* whenever they are unique in that list, and only then.                   *)
(***************************************************************************)
C12_RosterRepeatsAsTheList ==
    HasRepeat(Names(users)) <=> HasRepeat(LastUsersList)

\* the list a, b, a gave a roster of three with the name a twice
C12_Witness ==
    /\ handled >= 1
    /\ received[handled] = FrameUsersABA
    /\ Len(users) = 3
    /\ users[1].name = users[3].name

(***************************************************************************)
(* C13, as stated.  Every entry of the log has a non-empty sender, also    *)
(* after a Message envelope whose from is the empty string.                *)
(***************************************************************************)
C13_SendersNonEmpty == \A n \in 1..Len(messages) : messages[n].from # <<>>

(***************************************************************************)
(* C13, amended.  The senders of the log are the from members of the       *)
(* well-formed Message envelopes handled, one entry for each and in their  *)
(* order: a sender is empty exactly when that from is the empty string.    *)
(***************************************************************************)
C13_SendersAreTheFroms ==
    /\ Len(messages) = Len(LogOf(HandledFrames))
    /\ \A n \in 1..Len(messages) : messages[n].from = LogOf(HandledFrames)[n].from

\* a message with the empty sender is in the log, after one with a sender
C13_Witness ==
    /\ Len(messages) = 2
    /\ messages[1].from = <<"b">>
    /\ messages[2].from = <<>>

(***************************************************************************)
(* C14.  A rendered message is shown as an image exactly when its body     *)
(* ends with the four characters ".gif", in this case and at the end only: *)
(* "party.gif" is an image, "party.gif.txt" and "PARTY.GIF" are text.      *)
(***************************************************************************)
EndsDotGif(body) ==
    /\ Len(body) >= 4
    /\ body[Len(body) - 3] = "."
    /\ body[Len(body) - 2] = "g"
    /\ body[Len(body) - 1] = "i"
    /\ body[Len(body)] = "f"

C14_ImageIffDotGifSuffix ==
    (rendered /\ ~Stale) =>
        \A n \in 1..Len(html.bubbles) :
            /\ html.bubbles[n].image <=> EndsDotGif(html.bubbles[n].body)
            /\ html.bubbles[n].body = PartyGif => html.bubbles[n].image
            /\ html.bubbles[n].body = PartyGifTxt => ~html.bubbles[n].image
            /\ html.bubbles[n].body = PartyGifUpper => ~html.bubbles[n].image

\* the message "party.gif.txt" was rendered as text
C14_Witness ==
    /\ rendered
    /\ ~Stale
    /\ Len(html.bubbles) = 1
    /\ html.bubbles[1].body = PartyGifTxt
    /\ ~html.bubbles[1].image

(***************************************************************************)
(* C15.  A click on send with a non-empty text t in the input hands        *)
(* exactly one frame to the channel, and that frame decodes to a Message   *)
(* envelope with data t itself and dataArray null.                         *)
(***************************************************************************)
C15_SubmitSendsOneMessageEnvelope ==
    [][ (submits' = submits + 1 /\ chat_input # <<>>)
            => /\ Len(sends') = Len(sends) + 1
               /\ SubSeq(sends', 1, Len(sends)) = sends
               /\ SentEnvelopeOf[Last(sends').frame]
                     = Ok(WebSocketMessage("Message", None, Some(chat_input))) ]_vars

\* the text "hi" was submitted and the channel took the frame
C15_Witness ==
    /\ phase = "active"
    /\ submits = 1
    /\ Len(sends) = 2
    /\ Last(sends).ok
    /\ SentEnvelopeOf[Last(sends).frame].v.data = Some(<<"h","i">>)

(***************************************************************************)
(* C16.  The roster and the log are written by the inbound handler only:   *)
(* every step that changes either of them handles a frame, and a click on  *)
(* send, whether the channel takes the frame or not, and a render leave    *)
(* both as they were.                                                      *)
(***************************************************************************)
C16_ReducerIsOnlyWriter ==
    [][ /\ (users' # users \/ messages' # messages) => handled' = handled + 1
        /\ (submits' = submits + 1) => (users' = users /\ messages' = messages)
        /\ (html' # html \/ rendered' # rendered)
              => (users' = users /\ messages' = messages) ]_vars

\* a text was submitted and taken by the channel with a roster and a log in
\* place, and the view was rendered afterwards: the log holds the one message
\* that arrived
C16_Witness ==
    /\ submits = 1
    /\ handled = 2
    /\ Len(sends) = 2
    /\ sends[2].ok
    /\ Len(users) = 1
    /\ Len(messages) = 1
    /\ messages[1].from # username
    /\ rendered
    /\ ~Stale

(***************************************************************************)
(* C17.  In the rendered view the avatar of every logged message is looked *)
(* up in the current roster: it is the avatar URL of the sender when the   *)
(* list of the last Users envelope handled names the sender, and none      *)
(* otherwise.                                                              *)
(* The code makes the lookup for messages of other users only (line 180).  *)
(***************************************************************************)
Listed(name) == \E k \in 1..Len(LastUsersList) : LastUsersList[k] = name

C17_AvatarFromCurrentRoster ==
    (rendered /\ ~Stale) =>
        \A n \in 1..Len(html.bubbles) :
            html.bubbles[n].avatar
                = IF Listed(messages[n].from) THEN Some(AvatarUrl(messages[n].from))
                  ELSE None

(***************************************************************************)
(* C17, as the code has it.  In the rendered view a message of the local   *)
(* user has no avatar; a message of any other sender has the avatar URL of *)
(* the sender when the list of the last Users envelope handled names the   *)
(* sender, and none otherwise, whatever the roster was when it arrived.    *)
(***************************************************************************)
C17_AvatarOfOthersFromCurrentRoster ==
    (rendered /\ ~Stale) =>
        \A n \in 1..Len(html.bubbles) :
            html.bubbles[n].avatar
                = IF messages[n].from = username THEN None
                  ELSE IF Listed(messages[n].from)
                       THEN Some(AvatarUrl(messages[n].from))
                       ELSE None

\* b's message arrived while b was in the roster, a later Users envelope
\* omitted b, and the view rendered after it shows the message with no avatar
C17_Witness ==
    /\ username = <<"a">>
    /\ received = <<FrameUsersB, FrameMsgBHi, FrameUsersAbsent>>
    /\ handled = 3
    /\ rendered
    /\ ~Stale
    /\ Len(html.bubbles) = 1
    /\ html.bubbles[1].avatar = None

(***************************************************************************)
(* C18.  Handling a Message envelope whose data is null or absent does not *)
(* crash the client: the component stays active and the roster and the log *)
(* are as they were.                                                       *)
(* The code unwraps msg.data (line 106) and panics.                        *)
(***************************************************************************)
DataLess == {FrameMsgNoData, FrameMsgAbsentData}

C18_MessageWithoutDataSurvived ==
    [][ (handled' = handled + 1 /\ Last(received') \in DataLess)
            => (phase' = "active" /\ users' = users /\ messages' = messages) ]_vars

(***************************************************************************)
(* C19.  Every Message envelope the channel accepts comes after a Register *)
(* envelope the channel accepted.                                          *)
(* The code sends Register once, in create, and sends Messages whether the *)
(* channel took it or not.                                                 *)
(***************************************************************************)
Accepted(n, kind) ==
    /\ sends[n].ok
    /\ SentEnvelopeOf[sends[n].frame].v.message_type = kind

C19_RegisterAcceptedBeforeMessage ==
    \A n \in 1..Len(sends) :
        Accepted(n, "Message") => \E k \in 1..(n - 1) : Accepted(k, "Register")

=============================================================================
